---- MODULE Spec2Model ----
(***************************************************************************)
(* Model of the chemical-visualizer backend (Django app "analytics"):      *)
(* the upload view (parse, column check, summary, create, retention), the  *)
(* history, download and latest-summary views, and the Dataset table with  *)
(* its file storage.                                                       *)
(*                                                                         *)
(* Three specifications share the variables:                               *)
(*   Spec     requests served one at a time, each handler run to its       *)
(*            response; storage and database calls may raise               *)
(*   SpecAgg  the pure part of the upload view on a bounded table space    *)
(*   SpecConc two upload requests and a reader interleaved statement by    *)
(*            statement (every ORM call is one autocommit statement)       *)
(***************************************************************************)
EXTENDS Integers, Sequences, FiniteSets, TLC

VARIABLES
    records,    \* rows of the Dataset table
    files,      \* names present in file storage
    nextId,     \* next value of the AutoField primary key
    clock,      \* last reading of timezone.now() used by auto_now_add
    request,    \* the last request that returned
    resp,       \* its response
    faults,     \* number of storage/database calls that have raised
    ties,       \* number of rows created with the uploaded_at of the row before
    aggIn,      \* SpecAgg: the parsed dataframe
    aggPc,      \* SpecAgg: position in the pure part of post()
    aggOut,     \* SpecAgg: what _calculate_summary produced
    pc,         \* SpecConc: position of each request
    loc         \* SpecConc: local variables of each request

vars == <<records, files, nextId, clock, request, resp, faults, ties,
          aggIn, aggPc, aggOut, pc, loc>>

storeVars == <<records, files, nextId, clock, request, resp, faults, ties>>
aggVars == <<aggIn, aggPc, aggOut>>
concVars == <<pc, loc>>

----------------------------------------------------------------------------
(* Bounds of the model *)

MaxUploads == 7
MaxFaults == 1
MaxTies == 1
MaxRows == 2
MaxExcess == 2
MaxRuns == 2

----------------------------------------------------------------------------
(* Program constants *)

REQUIRED_COLUMNS == {"Equipment Name", "Type", "Flowrate", "Pressure", "Temperature"}

MAX_DATASETS == 5

numeric_columns == <<"Flowrate", "Pressure", "Temperature">>

HTTP_200_OK == 200
HTTP_201_CREATED == 201
HTTP_400_BAD_REQUEST == 400
HTTP_404_NOT_FOUND == 404
HTTP_500_INTERNAL_SERVER_ERROR == 500

----------------------------------------------------------------------------
(* pandas: cells of a parsed CSV.  A cell is the text between two commas.  *)
(* read_csv turns the empty cell and the NA spellings into NaN; a column   *)
(* every cell of which is a number or NaN is a float column, any other     *)
(* column keeps dtype object.                                              *)

NaValues == {"", "N/A", "NA", "NaN", "null"}

NumberOf == [c \in {"5", "10", "15", "20", "30"} |->
               CASE c = "5" -> 5 [] c = "10" -> 10 [] c = "15" -> 15
                 [] c = "20" -> 20 [] c = "30" -> 30]

IsNa(c) == c \in NaValues

IsNumber(c) == c \in DOMAIN NumberOf

Column(df, name) == [i \in 1..Len(df.rows) |-> df.rows[i][name]]

IsFloatColumn(col) == \A i \in 1..Len(col) : IsNa(col[i]) \/ IsNumber(col[i])

----------------------------------------------------------------------------
(* Floats.  A mean is kept as the reduced fraction it equals, or NaN.      *)

RECURSIVE Gcd(_, _)
Gcd(a, b) == IF b = 0 THEN a ELSE Gcd(b, a % b)

NaN == [nan |-> TRUE, num |-> 0, den |-> 1]

Float(n, d) == [nan |-> FALSE, num |-> n \div Gcd(n, d), den |-> d \div Gcd(n, d)]

RECURSIVE SumSeq(_)
SumSeq(s) == IF s = <<>> THEN 0 ELSE Head(s) + SumSeq(Tail(s))

(* Series.mean() of a float column: skipna=True, NaN when nothing is left. *)
Mean(col) ==
    LET vals == SelectSeq(col, IsNumber)
        nums == [i \in 1..Len(vals) |-> NumberOf[vals[i]]]
    IN  IF Len(vals) = 0 THEN NaN ELSE Float(SumSeq(nums), Len(vals))

(* Series.value_counts(): dropna=True, so NaN cells are not counted.       *)
ValueCounts(col) ==
    LET seen == {col[i] : i \in {j \in 1..Len(col) : ~IsNa(col[j])}}
    IN  [v \in seen |-> Cardinality({i \in 1..Len(col) : col[i] = v})]

(* DataFrame.mean() over the numeric columns.  A column of dtype object    *)
(* makes pandas >= 2 raise TypeError; pandas 1.x (numeric_only=None) drops *)
(* the column from the result.  The repository pins no pandas version, so  *)
(* `legacy` is an input.                                                   *)
MeanRaises(df, legacy) ==
    /\ ~legacy
    /\ \E k \in 1..Len(numeric_columns) : ~IsFloatColumn(Column(df, numeric_columns[k]))

Averages(df) ==
    LET kept == {numeric_columns[k] : k \in
                   {j \in 1..Len(numeric_columns) : IsFloatColumn(Column(df, numeric_columns[j]))}}
    IN  [c \in kept |-> Mean(Column(df, c))]

(* UploadCSV._calculate_summary; called only when it does not raise.       *)
CalculateSummary(df) ==
    [total_count |-> Len(df.rows),
     averages |-> Averages(df),
     type_distribution |-> ValueCounts(Column(df, "Type"))]

(* A column check that compares the names without their case *)
HasRequiredColumnsAnyCase(df) ==
    LET lower(c) == IF c = "type" THEN "Type" ELSE c
    IN  REQUIRED_COLUMNS \subseteq {lower(c) : c \in df.cols}

(* The column check of UploadCSV.post *)
HasRequiredColumns(df) == REQUIRED_COLUMNS \subseteq df.cols

----------------------------------------------------------------------------
(* The bounded table space of SpecAgg *)

Rows ==
    [Type : {"Pump", "Valve", ""},
     Flowrate : {"10", "20", "N/A", "abc"},
     Pressure : {"5", "x"},
     Temperature : {"20"}]

SeqsUpTo(S, n) == UNION {[1..k -> S] : k \in 0..n}

ColumnSets ==
    {REQUIRED_COLUMNS,
     REQUIRED_COLUMNS \cup {"Notes"},
     (REQUIRED_COLUMNS \ {"Type"}) \cup {"type"},
     (REQUIRED_COLUMNS \ {"Flowrate"}) \cup {" Flowrate"},
     REQUIRED_COLUMNS \ {"Equipment Name"},
     {"Notes"}}

AllTables ==
    {[cols |-> c, rows |-> r] :
        c \in {x \in ColumnSets : REQUIRED_COLUMNS \subseteq x}, r \in SeqsUpTo(Rows, MaxRows)}
    \cup
    {[cols |-> c, rows |-> <<>>] : c \in {x \in ColumnSets : ~(REQUIRED_COLUMNS \subseteq x)}}

InitAgg ==
    /\ aggIn \in AllTables
    /\ aggPc = "parsed"
    /\ aggOut = [total_count |-> 0, averages |-> <<>>, type_distribution |-> <<>>]
    /\ records = {}
    /\ files = {}
    /\ nextId = 1
    /\ clock = 0
    /\ request = [name |-> "", kind |-> "none", df |-> [cols |-> {}, rows |-> <<>>], pk |-> 0]
    /\ resp = [op |-> "none", status |-> 0, error |-> "", required |-> {}, found |-> {},
               data |-> <<>>]
    /\ faults = 0
    /\ ties = 0
    /\ pc = <<>>
    /\ loc = <<>>

(* post(), lines 65-71: the required-column check *)
CheckColumns ==
    /\ aggPc = "parsed"
    /\ aggPc' = IF HasRequiredColumns(aggIn) THEN "valid" ELSE "rejected"
    /\ UNCHANGED <<aggIn, aggOut>>

(* post(), line 74: summary = self._calculate_summary(dataframe) *)
Aggregate ==
    /\ aggPc = "valid"
    /\ \E legacy \in BOOLEAN :
         IF MeanRaises(aggIn, legacy)
         THEN /\ aggPc' = "raised"
              /\ aggOut' = aggOut
         ELSE /\ aggPc' = "summarised"
              /\ aggOut' = CalculateSummary(aggIn)
    /\ UNCHANGED aggIn

----------------------------------------------------------------------------
(* The Dataset table and file storage *)

(* FileField(upload_to='uploads/'): the storage gives the file the         *)
(* uploaded name, or that name with a suffix when the name is taken.       *)
StoredName(name, present) ==
    LET free == {k \in 0..Cardinality(present) : <<name, k>> \notin present}
    IN  <<name, CHOOSE k \in free : \A j \in free : k <= j>>

(* A row of analytics_dataset (preview_html is never written) *)
Dataset(id, file, at, summary, name) ==
    [id |-> id, file |-> file, uploaded_at |-> at, summary |-> summary,
     original_filename |-> name]

(* A retention loop that picks the row uploaded last *)
EarliestReversed(recs) == {r \in recs : \A x \in recs : r.uploaded_at >= x.uploaded_at}

(* Dataset.objects.earliest('uploaded_at'): ORDER BY uploaded_at ASC       *)
(* LIMIT 1.  Rows with the same uploaded_at come in an order the database  *)
(* does not fix, so every row with the least uploaded_at is a candidate.   *)
Earliest(recs) == {r \in recs : \A x \in recs : r.uploaded_at <= x.uploaded_at}

(* Dataset.objects.latest('uploaded_at'): ORDER BY uploaded_at DESC LIMIT 1 *)
Latest(recs) == {r \in recs : \A x \in recs : r.uploaded_at >= x.uploaded_at}

(* Dataset.objects.all().order_by('-uploaded_at'): every listing of the    *)
(* rows in which uploaded_at never increases                               *)
RECURSIVE OrderByUploadedAtDesc(_)
OrderByUploadedAtDesc(recs) ==
    IF recs = {} THEN {<<>>}
    ELSE UNION {{<<r>> \o s : s \in OrderByUploadedAtDesc(recs \ {r})} : r \in Latest(recs)}

(* DatasetSerializer, fields = '__all__' *)
Serialize(r) == r

----------------------------------------------------------------------------
(* Calls that can raise.  A fault names the call of the upload view that   *)
(* raises (OSError from the storage, DatabaseError from the ORM) and the   *)
(* iteration of the retention loop in which it does.                       *)

NoFault == [step |-> "none", iter |-> 0]

EvictionFaults == [step : {"del_file", "del_rec"}, iter : 1..2]

Faults ==
    {[step |-> "save", iter |-> 0], [step |-> "insert", iter |-> 0]} \cup EvictionFaults

(* A retention loop that goes on while MAX_DATASETS rows are left *)
RECURSIVE CleanupOutcomesOffByOne(_, _, _, _)
CleanupOutcomesOffByOne(recs, fs, fault, iter) ==
    IF ~(Cardinality(recs) >= MAX_DATASETS)
    THEN {[records |-> recs, files |-> fs, raised |-> FALSE]}
    ELSE UNION {
        CleanupOutcomesOffByOne(recs \ {oldest}, fs \ {oldest.file}, fault, iter + 1)
        : oldest \in Earliest(recs)}

(* UploadCSV._cleanup_old_datasets run to its end: every state it can      *)
(* leave, and whether it raised.                                           *)
RECURSIVE CleanupOutcomes(_, _, _, _)
CleanupOutcomes(recs, fs, fault, iter) ==
    IF ~(Cardinality(recs) > MAX_DATASETS)
    THEN {[records |-> recs, files |-> fs, raised |-> FALSE]}
    ELSE UNION {
        IF oldest.file # <<>> /\ fault = [step |-> "del_file", iter |-> iter]
        THEN {[records |-> recs, files |-> fs, raised |-> TRUE]}
        ELSE LET fs2 == IF oldest.file # <<>> THEN fs \ {oldest.file} ELSE fs
             IN  IF fault = [step |-> "del_rec", iter |-> iter]
                 THEN {[records |-> recs, files |-> fs2, raised |-> TRUE]}
                 ELSE CleanupOutcomes(recs \ {oldest}, fs2, fault, iter + 1)
        : oldest \in Earliest(recs)}

----------------------------------------------------------------------------
(* Requests and responses *)

NoSummary == [total_count |-> 0, averages |-> <<>>, type_distribution |-> <<>>]

Response(op, code, error, required, found, data) ==
    [op |-> op, status |-> code, error |-> error, required |-> required,
     found |-> found, data |-> data]

NoResponse == Response("none", 0, "", {}, {}, <<>>)

ErrorResponse(op, code, error) == Response(op, code, error, {}, {}, <<>>)

Row(type, flow, pressure, temp) ==
    [Type |-> type, Flowrate |-> flow, Pressure |-> pressure, Temperature |-> temp]

Table(rows) == [cols |-> REQUIRED_COLUMNS, rows |-> rows]

NoTable == [cols |-> {}, rows |-> <<>>]

Upload(name, kind, df) == [name |-> name, kind |-> kind, df |-> df, pk |-> 0]

Read(kind, pk) == [name |-> "", kind |-> kind, df |-> NoTable, pk |-> pk]

NoRequest == Read("none", 0)

(* The upload requests of Spec: no file part, an empty file, a file that   *)
(* is no CSV, a file that is not text, and CSV files                       *)
Requests ==
    {Upload("", "nofile", NoTable),
     Upload("a.csv", "empty", NoTable),
     Upload("a.csv", "malformed", NoTable),
     Upload("a.csv", "binary", NoTable),
     Upload("a.csv", "csv",
            Table(<<Row("Pump", "10", "5", "20"), Row("Valve", "20", "15", "30")>>)),
     Upload("b.csv", "csv",
            Table(<<Row("Pump", "abc", "5", "20"), Row("", "10", "N/A", "30")>>)),
     Upload("b.csv", "csv",
            [cols |-> (REQUIRED_COLUMNS \ {"Type"}) \cup {"type"}, rows |-> <<>>])}

ReachesCreate(req, legacy) ==
    /\ req.kind = "csv"
    /\ HasRequiredColumns(req.df)
    /\ ~MeanRaises(req.df, legacy)

(* UploadCSV.post run to its response: every outcome of one request *)
PostOutcomes(req, tick, fault, legacy) ==
    LET same(r) == {[records |-> records, files |-> files, nextId |-> nextId,
                     clock |-> clock, resp |-> r, raised |-> FALSE]}
        internal == ErrorResponse("upload", HTTP_500_INTERNAL_SERVER_ERROR, "Processing error")
    IN  IF req.kind = "nofile"
        THEN same(ErrorResponse("upload", HTTP_400_BAD_REQUEST, "No file provided"))
        ELSE IF req.kind = "empty"
        THEN same(ErrorResponse("upload", HTTP_400_BAD_REQUEST, "CSV file is empty"))
        ELSE IF req.kind = "malformed"
        THEN same(ErrorResponse("upload", HTTP_400_BAD_REQUEST, "Invalid CSV format"))
        ELSE IF req.kind = "binary"
        THEN same(internal)
        ELSE IF ~HasRequiredColumns(req.df)
        THEN same(Response("upload", HTTP_400_BAD_REQUEST, "CSV missing required columns",
                           REQUIRED_COLUMNS, req.df.cols, <<>>))
        ELSE IF MeanRaises(req.df, legacy)
        THEN same(internal)
        ELSE IF fault.step = "save"
        THEN {[records |-> records, files |-> files, nextId |-> nextId,
               clock |-> clock, resp |-> internal, raised |-> TRUE]}
        ELSE
        LET file == StoredName(req.name, files)
            fs1 == files \cup {file}
            now == IF tick = 0 THEN clock ELSE nextId
            dataset == Dataset(nextId, file, now, CalculateSummary(req.df), req.name)
        IN  IF fault.step = "insert"
            THEN {[records |-> records, files |-> fs1, nextId |-> nextId,
                   clock |-> clock, resp |-> internal, raised |-> TRUE]}
            ELSE {[records |-> c.records, files |-> c.files, nextId |-> nextId + 1,
                   clock |-> now,
                   resp |-> IF c.raised THEN internal
                            ELSE Response("upload", HTTP_201_CREATED, "", {}, {},
                                          <<Serialize(dataset)>>),
                   raised |-> c.raised]
                  : c \in CleanupOutcomes(records \cup {dataset}, fs1, fault, 1)}

Init ==
    /\ records = {}
    /\ files = {}
    /\ nextId = 1
    /\ clock = 0
    /\ request = NoRequest
    /\ resp = NoResponse
    /\ faults = 0
    /\ ties = 0
    /\ aggIn = NoTable
    /\ aggPc = "idle"
    /\ aggOut = NoSummary
    /\ pc = <<>>
    /\ loc = <<>>

(* POST /api/upload/, the calls in `mayRaise` being allowed to raise *)
Post(mayRaise) ==
    \E req \in Requests, legacy \in BOOLEAN :
        /\ ReachesCreate(req, legacy) => nextId <= MaxUploads
        /\ \E tick \in (IF ReachesCreate(req, legacy) /\ nextId > 1 /\ ties < MaxTies
                        THEN {0, 1} ELSE {1}),
              fault \in (IF ReachesCreate(req, legacy) /\ faults < MaxFaults
                         THEN mayRaise \cup {NoFault} ELSE {NoFault}) :
             \E o \in PostOutcomes(req, tick, fault, legacy) :
                /\ records' = o.records
                /\ files' = o.files
                /\ nextId' = o.nextId
                /\ clock' = o.clock
                /\ request' = req
                /\ resp' = o.resp
                /\ faults' = IF o.raised THEN faults + 1 ELSE faults
                /\ ties' = IF o.nextId > nextId /\ o.clock = clock THEN ties + 1 ELSE ties
        /\ UNCHANGED <<aggVars, concVars>>

(* POST /api/upload/ with a storage and a database that answer every call *)
UploadCSV_post == Post({})

(* POST /api/upload/ with a storage or a database that may raise *)
UploadCSV_post_raising == Post(Faults)

(* POST /api/upload/ where only the calls of the retention loop may raise *)
UploadCSV_post_cleanup_raising == Post(EvictionFaults)

(* GET /api/history/ *)
HistoryList_get ==
    /\ request' = Read("history", 0)
    /\ \E listing \in OrderByUploadedAtDesc(records) :
         resp' = Response("history", HTTP_200_OK, "", {}, {},
                          [i \in 1..Len(listing) |-> Serialize(listing[i])])
    /\ UNCHANGED <<records, files, nextId, clock, faults, ties, aggVars, concVars>>

(* DatasetDownload.get once the row has been read *)
OpenFile(dataset, fs) ==
    IF dataset.file = <<>>
    THEN ErrorResponse("download", HTTP_404_NOT_FOUND, "File not found for this dataset")
    ELSE IF dataset.file \notin fs
    THEN ErrorResponse("download", HTTP_500_INTERNAL_SERVER_ERROR, "FileNotFoundError")
    ELSE Response("download", HTTP_200_OK, "", {}, {},
                  <<[id |-> dataset.id, file |-> dataset.file,
                     filename |-> IF dataset.original_filename = "" THEN "dataset.csv"
                                  ELSE dataset.original_filename]>>)

DownloadResponse(pk, recs, fs) ==
    IF \E r \in recs : r.id = pk
    THEN OpenFile(CHOOSE r \in recs : r.id = pk, fs)
    ELSE ErrorResponse("download", HTTP_404_NOT_FOUND, "Dataset not found")

(* GET /api/dataset/<pk>/download/ *)
DatasetDownload_get ==
    /\ \E pk \in 1..(MaxUploads + 1) :
         /\ request' = Read("download", pk)
         /\ resp' = DownloadResponse(pk, records, files)
    /\ UNCHANGED <<records, files, nextId, clock, faults, ties, aggVars, concVars>>

LatestResponses(recs) ==
    IF recs = {}
    THEN {ErrorResponse("latest", HTTP_404_NOT_FOUND, "No datasets found")}
    ELSE {Response("latest", HTTP_200_OK, "", {}, {},
                   <<[id |-> r.id, summary |-> r.summary, uploaded_at |-> r.uploaded_at,
                      original_filename |-> r.original_filename]>>) : r \in Latest(recs)}

(* GET /api/summary/latest/ *)
LatestSummary_get ==
    /\ request' = Read("latest", 0)
    /\ resp' \in LatestResponses(records)
    /\ UNCHANGED <<records, files, nextId, clock, faults, ties, aggVars, concVars>>

Next ==
    \/ UploadCSV_post
    \/ HistoryList_get
    \/ DatasetDownload_get
    \/ LatestSummary_get

Spec == Init /\ [][Next]_vars

NextFault ==
    \/ UploadCSV_post_raising
    \/ HistoryList_get
    \/ DatasetDownload_get
    \/ LatestSummary_get

SpecFault == Init /\ [][NextFault]_vars

NextEvict ==
    \/ UploadCSV_post_cleanup_raising
    \/ HistoryList_get
    \/ DatasetDownload_get
    \/ LatestSummary_get

SpecEvict == Init /\ [][NextEvict]_vars

NextAgg ==
    \/ CheckColumns /\ UNCHANGED <<storeVars, concVars>>
    \/ Aggregate /\ UNCHANGED <<storeVars, concVars>>

SpecAgg == InitAgg /\ [][NextAgg]_vars

----------------------------------------------------------------------------
(* SpecConc: two upload requests and a reader, one ORM or storage call at  *)
(* a time.  Both uploads carry a.csv, which passes the column check; the   *)
(* parse, the check and the summary touch nothing shared and are part of   *)
(* the first step.  No call raises.                                        *)

Uploaders == {"u1", "u2"}

Reader == "r"

NoRow == Dataset(0, <<>>, 0, NoSummary, "")

NoLocals == [file |-> <<>>, dataset |-> NoRow, oldest |-> NoRow, row |-> NoRow]

ValidTable == Table(<<Row("Pump", "10", "5", "20"), Row("Valve", "20", "15", "30")>>)

(* The table after n uploads of a.csv served one after the other *)
Seeded(n) ==
    {Dataset(i, <<"a.csv", i - 1>>, i, CalculateSummary(ValidTable), "a.csv") : i \in 1..n}

InitConc ==
    /\ \E n \in 0..MAX_DATASETS :
         /\ records = Seeded(n)
         /\ files = {r.file : r \in Seeded(n)}
         /\ nextId = n + 1
         /\ clock = n
    /\ request = NoRequest
    /\ resp = NoResponse
    /\ faults = 0
    /\ ties = 0
    /\ aggIn = NoTable
    /\ aggPc = "idle"
    /\ aggOut = NoSummary
    /\ pc = [p \in Uploaders \cup {Reader} |-> IF p = Reader THEN "idle" ELSE "start"]
    /\ loc = [p \in Uploaders \cup {Reader} |-> NoLocals]

(* Dataset.objects.create, first half: FileField.pre_save writes the file *)
SaveFile(p) ==
    /\ pc[p] = "start"
    /\ LET file == StoredName("a.csv", files)
       IN  /\ files' = files \cup {file}
           /\ loc' = [loc EXCEPT ![p].file = file]
    /\ pc' = [pc EXCEPT ![p] = "insert"]
    /\ UNCHANGED <<records, nextId, clock, request, resp, faults, ties, aggVars>>

(* Dataset.objects.create, second half: the INSERT *)
InsertRow(p) ==
    /\ pc[p] = "insert"
    /\ \E tick \in (IF nextId > 1 /\ ties < MaxTies THEN {0, 1} ELSE {1}) :
         LET now == IF tick = 0 THEN clock ELSE nextId
             dataset == Dataset(nextId, loc[p].file, now, CalculateSummary(ValidTable), "a.csv")
         IN  /\ records' = records \cup {dataset}
             /\ clock' = now
             /\ ties' = IF tick = 0 THEN ties + 1 ELSE ties
             /\ loc' = [loc EXCEPT ![p].dataset = dataset]
    /\ nextId' = nextId + 1
    /\ pc' = [pc EXCEPT ![p] = "count"]
    /\ UNCHANGED <<files, request, resp, faults, aggVars>>

(* _cleanup_old_datasets: while Dataset.objects.count() > MAX_DATASETS;    *)
(* when the loop ends post() returns 201                                   *)
Count(p) ==
    /\ pc[p] = "count"
    /\ IF Cardinality(records) > MAX_DATASETS
       THEN /\ pc' = [pc EXCEPT ![p] = "earliest"]
            /\ UNCHANGED <<request, resp>>
       ELSE /\ pc' = [pc EXCEPT ![p] = "done"]
            /\ request' = Upload("a.csv", "csv", ValidTable)
            /\ resp' = Response("upload", HTTP_201_CREATED, "", {}, {},
                                <<Serialize(loc[p].dataset)>>)
    /\ UNCHANGED <<records, files, nextId, clock, faults, ties, loc, aggVars>>

(* oldest = Dataset.objects.earliest('uploaded_at'); DoesNotExist on an    *)
(* empty table ends post() with 500                                        *)
FindOldest(p) ==
    /\ pc[p] = "earliest"
    /\ IF records = {}
       THEN /\ pc' = [pc EXCEPT ![p] = "done"]
            /\ request' = Upload("a.csv", "csv", ValidTable)
            /\ resp' = ErrorResponse("upload", HTTP_500_INTERNAL_SERVER_ERROR, "Processing error")
            /\ loc' = loc
       ELSE /\ \E oldest \in Earliest(records) : loc' = [loc EXCEPT ![p].oldest = oldest]
            /\ pc' = [pc EXCEPT ![p] = "del_file"]
            /\ UNCHANGED <<request, resp>>
    /\ UNCHANGED <<records, files, nextId, clock, faults, ties, aggVars>>

(* if oldest.file: oldest.file.delete(save=False); the storage ignores a   *)
(* file that is already gone                                               *)
DeleteFile(p) ==
    /\ pc[p] = "del_file"
    /\ files' = IF loc[p].oldest.file # <<>> THEN files \ {loc[p].oldest.file} ELSE files
    /\ pc' = [pc EXCEPT ![p] = "del_row"]
    /\ UNCHANGED <<records, nextId, clock, request, resp, faults, ties, loc, aggVars>>

(* oldest.delete(): DELETE ... WHERE id = %s, no error when no row matches *)
DeleteRow(p) ==
    /\ pc[p] = "del_row"
    /\ records' = {r \in records : r.id # loc[p].oldest.id}
    /\ pc' = [pc EXCEPT ![p] = "count"]
    /\ UNCHANGED <<files, nextId, clock, request, resp, faults, ties, loc, aggVars>>

(* DatasetDownload.get: dataset = Dataset.objects.get(pk=pk) *)
GetRow ==
    /\ pc[Reader] = "idle"
    /\ \E pk \in 1..(MAX_DATASETS + 2) :
         /\ request' = Read("download", pk)
         /\ IF \E r \in records : r.id = pk
            THEN /\ loc' = [loc EXCEPT ![Reader].row = CHOOSE r \in records : r.id = pk]
                 /\ pc' = [pc EXCEPT ![Reader] = "open"]
                 /\ resp' = resp
            ELSE /\ resp' = ErrorResponse("download", HTTP_404_NOT_FOUND, "Dataset not found")
                 /\ UNCHANGED <<pc, loc>>
    /\ UNCHANGED <<records, files, nextId, clock, faults, ties, aggVars>>

(* DatasetDownload.get: the file check and dataset.file.open() *)
OpenRow ==
    /\ pc[Reader] = "open"
    /\ resp' = OpenFile(loc[Reader].row, files)
    /\ pc' = [pc EXCEPT ![Reader] = "idle"]
    /\ loc' = [loc EXCEPT ![Reader].row = NoRow]
    /\ UNCHANGED <<records, files, nextId, clock, request, faults, ties, aggVars>>

(* HistoryList.get while uploads are in flight *)
ListRows ==
    /\ pc[Reader] = "idle"
    /\ request' = Read("history", 0)
    /\ \E listing \in OrderByUploadedAtDesc(records) :
         resp' = Response("history", HTTP_200_OK, "", {}, {},
                          [i \in 1..Len(listing) |-> Serialize(listing[i])])
    /\ UNCHANGED <<records, files, nextId, clock, faults, ties, aggVars, concVars>>

NextConc ==
    \/ \E p \in Uploaders : SaveFile(p)
    \/ \E p \in Uploaders : InsertRow(p)
    \/ \E p \in Uploaders : Count(p)
    \/ \E p \in Uploaders : FindOldest(p)
    \/ \E p \in Uploaders : DeleteFile(p)
    \/ \E p \in Uploaders : DeleteRow(p)
    \/ GetRow
    \/ OpenRow
    \/ ListRows

SpecConc == InitConc /\ [][NextConc]_vars


----------------------------------------------------------------------------
(* SpecRetain: _cleanup_old_datasets on its own, called again and again    *)
(* with no create in between, on every table of up to MAX_DATASETS +       *)
(* MaxExcess rows that uploads of a.csv leave (more than MAX_DATASETS rows *)
(* are what a raised retention loop or uploads in flight leave behind).    *)

RECURSIVE Stamp(_, _)
Stamp(i, tied) == IF i \in tied THEN Stamp(i - 1, tied) ELSE i

Stored(n, tied) ==
    {Dataset(i, <<"a.csv", i - 1>>, Stamp(i, tied), CalculateSummary(ValidTable), "a.csv")
        : i \in 1..n}

InitRetain ==
    /\ \E n \in 0..(MAX_DATASETS + MaxExcess) :
         \E tied \in SUBSET (2..n) :
            /\ records = Stored(n, tied)
            /\ \E gone \in {{}, {<<"a.csv", 0>>}} :
                  files = {r.file : r \in Stored(n, tied)} \ gone
            /\ nextId = n + 1
            /\ clock = Stamp(n, tied)
            /\ ties = Cardinality(tied)
    /\ request = NoRequest
    /\ resp = NoResponse
    /\ faults = 0
    /\ aggIn = NoTable
    /\ aggPc = "idle"
    /\ aggOut = NoSummary
    /\ pc = [p \in {"retain"} |-> 0]
    /\ loc = <<>>

(* self._cleanup_old_datasets(), no call raising *)
Enforce ==
    /\ pc["retain"] < MaxRuns
    /\ \E o \in CleanupOutcomes(records, files, NoFault, 1) :
         /\ records' = o.records
         /\ files' = o.files
    /\ pc' = [pc EXCEPT !["retain"] = @ + 1]
    /\ UNCHANGED <<nextId, clock, request, resp, faults, ties, aggVars, loc>>

NextRetain == Enforce

SpecRetain == InitRetain /\ [][NextRetain]_vars

----------------------------------------------------------------------------
(* Properties *)

Created == nextId - 1

Survivors == {id \in 1..Created : id > Created - MAX_DATASETS}

Evicted == (1..Created) \ Survivors

NewestFirst == [i \in 1..Cardinality(Survivors) |-> Created - i + 1]

Ids(listing) == [i \in 1..Len(listing) |-> listing[i].id]

RECURSIVE SumValues(_)
SumValues(f) ==
    IF DOMAIN f = {} THEN 0
    ELSE LET k == CHOOSE x \in DOMAIN f : TRUE
         IN  f[k] + SumValues([x \in DOMAIN f \ {k} |-> f[x]])

IsUploadOf(req) == req.kind \in {"nofile", "empty", "malformed", "binary", "csv"}

(* C1: whenever an upload has returned, whatever its response, the table   *)
(* holds at most MAX_DATASETS rows.                                        *)
C1_AtMostMaxDatasetsAfterUpload ==
    resp.op = "upload" => Cardinality(records) <= MAX_DATASETS

(* C2: after k successful uploads with strictly increasing uploaded_at the *)
(* history lists exactly the min(k, MAX_DATASETS) rows uploaded last, the  *)
(* newest first; the rows before them are gone, a download of one answers  *)
(* 404 and storage holds no file but those of the rows listed.             *)
C2_EvictionIsOldestFirst ==
    ties = 0 =>
        /\ \A listing \in OrderByUploadedAtDesc(records) :
              /\ Ids(listing) = NewestFirst
              /\ \A i \in 1..(Len(listing) - 1) :
                    listing[i].uploaded_at > listing[i + 1].uploaded_at
        /\ resp.op = "history" => Ids(resp.data) = NewestFirst
        /\ \A pk \in Evicted :
              DownloadResponse(pk, records, files).status = HTTP_404_NOT_FOUND
        /\ resp.op = "download" /\ request.pk \in Evicted
              => resp.status = HTTP_404_NOT_FOUND
        /\ files = {r.file : r \in records}

C2_SevenUploadsListed ==
    /\ ties = 0
    /\ Created = MAX_DATASETS + 2
    /\ resp.op = "history"
    /\ Ids(resp.data) = <<7, 6, 5, 4, 3>>

(* C3: in every state every row has its file in storage and every file in  *)
(* storage is the file of a row.                                           *)
C3_RowAndFileGoTogether ==
    /\ \A r \in records : r.file \in files
    /\ \A f \in files : \E r \in records : r.file = f

(* C4: an upload that answers with an error has left the rows and the      *)
(* files as they were when it began.                                       *)
C4_ErrorPersistsNothing ==
    [][resp'.op = "upload" /\ IsUploadOf(request') /\ resp'.status >= HTTP_400_BAD_REQUEST
          => records' = records /\ files' = files]_vars

(* C5: an upload of a table that lacks a required column (names compared   *)
(* exactly) answers 400 with the required and the found columns, and the   *)
(* rows, the files and the next id are as they were: nothing is created    *)
(* and nothing is evicted.                                                 *)
C5_MissingColumnsRejected ==
    [][request'.kind = "csv" /\ ~(REQUIRED_COLUMNS \subseteq request'.df.cols)
          => /\ resp'.op = "upload"
             /\ resp'.status = HTTP_400_BAD_REQUEST
             /\ resp'.error = "CSV missing required columns"
             /\ resp'.required = REQUIRED_COLUMNS
             /\ resp'.found = request'.df.cols
             /\ records' = records
             /\ files' = files
             /\ nextId' = nextId]_vars

C5_RejectedWithRowsStored ==
    /\ request.kind = "csv"
    /\ "type" \in request.df.cols
    /\ resp.error = "CSV missing required columns"
    /\ Cardinality(records) = MAX_DATASETS

(* C8: the summary of a table that has the required columns counts every   *)
(* data row, and the counts of its type distribution add up to that count. *)
C8_TypeDistributionSumsToTotal ==
    aggPc = "summarised" =>
        /\ aggOut.total_count = Len(aggIn.rows)
        /\ SumValues(aggOut.type_distribution) = aggOut.total_count

MostRecent(recs) ==
    CHOOSE r \in recs : \A x \in recs :
        \/ x.uploaded_at < r.uploaded_at
        \/ x.uploaded_at = r.uploaded_at /\ x.id <= r.id

(* C9: the latest-summary request answers 404 exactly when there is no row; *)
(* otherwise it answers with the summary, time and name of the row with    *)
(* the greatest uploaded_at, the highest id among equals, and that row is  *)
(* the first of every history listing.                                     *)
C9_LatestIsMostRecent ==
    resp.op = "latest" =>
        /\ resp.status = HTTP_404_NOT_FOUND <=> records = {}
        /\ records # {} =>
              /\ resp.status = HTTP_200_OK
              /\ resp.data[1].id = MostRecent(records).id
              /\ resp.data[1].summary = MostRecent(records).summary
              /\ resp.data[1].uploaded_at = MostRecent(records).uploaded_at
              /\ resp.data[1].original_filename = MostRecent(records).original_filename
              /\ \A listing \in OrderByUploadedAtDesc(records) :
                    listing[1].id = resp.data[1].id

HasNonNumericCell(df) ==
    \E k \in 1..Len(numeric_columns), i \in 1..Len(df.rows) :
        LET cell == df.rows[i][numeric_columns[k]]
        IN  cell # "" /\ ~IsNumber(cell)

(* C10: an upload of a table that has the required columns and a cell that *)
(* is no number in a numeric column answers with a client error (400) that *)
(* names the data error, creates no row and returns no averages.           *)
C10_NonNumericCellIsDataError ==
    [][request'.kind = "csv" /\ HasRequiredColumns(request'.df)
            /\ HasNonNumericCell(request'.df)
          => /\ resp'.status = HTTP_400_BAD_REQUEST
             /\ resp'.error = "DataError"
             /\ resp'.data = <<>>
             /\ records' = records]_vars

BothUploadsDone == \A p \in Uploaders : pc[p] = "done"

(* C6: once two uploads that ran at the same time onto n rows have both    *)
(* returned, the table holds exactly min(n + 2, MAX_DATASETS) rows.        *)
C6_TwoUploadsKeepTheCount ==
    BothUploadsDone =>
        Cardinality(records) = (IF Created < MAX_DATASETS THEN Created ELSE MAX_DATASETS)

(* C7: a download that found its row never reports the file missing,       *)
(* whatever the retention loop of an upload is doing meanwhile.            *)
C7_FoundRowHasItsFile ==
    resp.op = "download" => resp.status # HTTP_500_INTERNAL_SERVER_ERROR

(* C11: the retention loop called on a table of at most MAX_DATASETS rows  *)
(* deletes no row and no file, and called again after a call, with no      *)
(* create in between, it leaves rows and files as that call left them.     *)
C11_RetentionIsIdempotent ==
    [][pc["retain"] >= 1 \/ Cardinality(records) <= MAX_DATASETS
          => records' = records /\ files' = files]_vars

C11_EnforcedTwiceAfterEvicting ==
    /\ pc["retain"] = 2
    /\ nextId > MAX_DATASETS + 2
    /\ Cardinality(records) = MAX_DATASETS
    /\ Cardinality(files) <= MAX_DATASETS

Older(a, b) ==
    \/ a.uploaded_at < b.uploaded_at
    \/ a.uploaded_at = b.uploaded_at /\ a.id < b.id

(* C12: every row an upload evicts is older (earlier uploaded_at, lower id *)
(* among equals) than every row it leaves, and the row the upload created  *)
(* is among the rows left.                                                 *)
C12_EvictsTheOldest ==
    [][nextId' = nextId + 1
          => /\ \A e \in records \ records' : \A r \in records' : Older(e, r)
             /\ \E r \in records' : r.id = nextId]_vars

====
